---- MODULE Spec2Model ----
(***************************************************************************)
(* Inventory concurrency controller and transactional order placement of   *)
(* the storefront backend: models/Product.js (updateStockSafe,             *)
(* lockProduct, unlockProduct), models/Order.js, routes/orders.js and      *)
(* routes/products.js.                                                     *)
(*                                                                         *)
(* Every await of a store operation is one step.  A store operation on one *)
(* document is atomic.  Operations run inside session.withTransaction read *)
(* one snapshot plus their own writes, meet a WriteConflict when they      *)
(* write a document that changed after the snapshot or that another open   *)
(* transaction has written, and become visible together at commit.  A     *)
(* write outside a transaction waits while an open transaction holds the   *)
(* document.                                                               *)
(***************************************************************************)
EXTENDS Integers, Sequences, FiniteSets, TLC

\* ------------------------------------------------------------------ bounds
\* number of requests to the order, product and lock routes in one behaviour
MaxReqs == 3
\* number of requests in one behaviour, the cart routes included
MaxSlots == 5
\* number of order placements in a behaviour of the fair specification
MaxPlacements == 2
\* largest quantity of one order line
MaxQty == 2
\* stock every product is created with
InitStock == 3
\* the clock stops here (minutes)
MaxTime == 6

\* ------------------------------------------------------- program constants
\* Product.js:141  5 * 60 * 1000 ms, counted in minutes
LockTimeout == 5

Products == {"p1", "p2"}
\* a well-formed product id that names no document
NoProduct == "p0"
ProductIds == Products \cup {NoProduct}
Users == {"u1", "u2"}
Reqs == 1..MaxSlots
\* the slots of the requests to the order, product and lock routes
StoreReqs == 1..MaxReqs
Quantities == 1..MaxQty

\* a Date is <<t>>, null is << >>
NullDate == << >>
NullId == "null"

VARIABLES
    products,   \* the products collection: id -> document
    orders,     \* the orders collection, in creation order (the index is the id)
    now,        \* Date.now(), in minutes
    req,        \* the requests: position, arguments and local variables
    won,        \* history: per product, the versions read by the successful adjustments
    writers,    \* history: per product, the kinds of request that have written its stock
    userCarts,  \* the Map userCarts: user -> the cart object stored for the user
    cartObjs    \* the cart objects: object -> its items array

vars == <<products, orders, now, req, won, writers, userCarts, cartObjs>>

cartVars == <<userCarts, cartObjs>>

\* ------------------------------------------------------------- documents
\* productSchema defaults; stock is the value the product is created with
NewProduct ==
    [stock |-> InitStock, version |-> 0, isLocked |-> FALSE, lockedAt |-> NullDate,
     lockedBy |-> NullId, isActive |-> TRUE, totalSold |-> 0, price |-> 1000]

OrderStatuses == {"pending", "processing", "shipped", "delivered", "cancelled"}

\* the bodies of order requests: one line, or two lines of the largest quantity,
\* the second possibly of a product that does not exist
Lines == [productId : Products, quantity : Quantities]
MissingLine == [productId |-> NoProduct, quantity |-> 1]
FullLines == {l \in Lines : l.quantity = MaxQty}
ItemLists ==
    {<<l>> : l \in Lines \cup {MissingLine}}
    \cup {<<l1, l2>> : l1 \in FullLines, l2 \in FullLines \cup {MissingLine}}

\* who places orders, and who administers
Customer == "u1"
Admin == "u2"

\* quantityChange of PATCH /:id/stock
Deltas == {0 - MaxQty, 1}

\* a request that has not arrived
NoReq ==
    [pc |-> "idle", kind |-> "none", user |-> NullId, pid |-> NoProduct, delta |-> 0,
     items |-> << >>, oid |-> 0, i |-> 0, ver |-> 0, result |-> "none",
     view |-> [p \in Products |-> NewProduct], ins |-> FALSE, wset |-> {}, stale |-> {},
     why |-> "none", gain |-> [p \in Products |-> 0], fail |-> FALSE,
     pre |-> NewProduct, snap |-> [p \in Products |-> NewProduct], reads |-> << >>,
     cart |-> 0, idx |-> 0, frozen |-> FALSE, arr |-> << >>,
     held |-> [live |-> FALSE, pos |-> 0, rec |-> << >>], found |-> FALSE,
     out |-> << >>, count |-> 0, total |-> 0, before |-> << >>, alone |-> FALSE]

\* positions inside the callback of session.withTransaction, after its first read
TxnPcs == {"create", "txn_uss", "commit"}

\* A handler's last turn ends with res.json(...): no other handler runs before
\* the response is out.
Quiet == \A t \in Reqs : req[t].pc # "done"

\* the next request to arrive takes the next free slot
Arrives(r) ==
    /\ Quiet
    /\ req[r].pc = "idle"
    /\ IF r = 1 THEN TRUE ELSE req[r - 1].pc # "idle"

\* request r resumes at the await it is suspended at
At(r, kind, pc) == Quiet /\ req[r].kind = kind /\ req[r].pc = pc

\* r holds an open transaction with a snapshot
InTxn(r) == req[r].pc \in TxnPcs

\* an open transaction other than r's has written document p and not committed
HeldByTxn(p, r) == \E t \in Reqs \ {r} : InTxn(t) /\ p \in req[t].wset

\* a committed write of the documents S by r: every other open transaction's
\* snapshot is now older than these documents
Touch(rq, S, r) ==
    [t \in Reqs |-> IF t # r /\ InTxn(t) THEN [rq[t] EXCEPT !.stale = @ \cup S] ELSE rq[t]]

\* the response: the transaction-local state is gone
Answer(rec, res) ==
    [rec EXCEPT !.pc = "done", !.result = res, !.view = NoReq.view, !.ins = FALSE,
                !.wset = {}, !.stale = {}]

\* a request that has arrived and has not yet sent its response
InFlight(s) == req[s].pc \notin {"idle", "done", "gone"}

\* the request is over
Gone == [NoReq EXCEPT !.pc = "gone"]

Respond(r) ==
    /\ req[r].pc = "done"
    /\ req' = [req EXCEPT ![r] = Gone]
    /\ UNCHANGED <<products, orders, now, won, writers>>
    /\ UNCHANGED cartVars

\* ---------------------------------------------------- routes/cart.js: storage
\* userCarts is keyed by req.user._id.toString(); the carts of the customer
CartUsers == {Customer}

\* a cart object { items, updatedAt } has an identity: handlers keep references
\* to it across their awaits
ObjIds == Reqs
\* userCarts.get(userId) is undefined
NoObj == 0
NoItems == << >>

\* a line of a cart as POST /add pushes it; GET / adds the two annotations
CartItem(productId, price, quantity, total) ==
    [productId |-> productId, price |-> price, quantity |-> quantity, total |-> total,
     annotated |-> FALSE, availableStock |-> 0, inStock |-> FALSE]

\* the positions at which a handler is suspended holding a cart object
HoldingPcs == {"get_loop", "put_cart"}

HeldObjs(rq) == {rq[t].cart : t \in {x \in Reqs : rq[x].pc \in HoldingPcs}}

\* { items: [], updatedAt: new Date() }: a new object, named by the first name
\* no suspended handler refers to
newObj ==
    CHOOSE o \in ObjIds :
        /\ o \notin HeldObjs(req)
        /\ \A q \in ObjIds : q < o => q \in HeldObjs(req)

\* objects that neither the Map nor a suspended handler refers to are garbage
collect(objs, carts, rq) ==
    [o \in ObjIds |->
        IF o \in HeldObjs(rq) \/ (\E u \in CartUsers : carts[u] = o) THEN objs[o]
        ELSE NoItems]

\* Product.findOne({ _id, isActive: true }) returns a document
findActive(docs, productId) ==
    productId \in Products /\ docs[productId].isActive

\* items.findIndex(item => item.productId === productId), counted from 1; 0 is -1
findIndex(items, productId) ==
    IF \E k \in DOMAIN items : items[k].productId = productId
    THEN CHOOSE k \in DOMAIN items :
            /\ items[k].productId = productId
            /\ \A j \in 1..(k - 1) : items[j].productId # productId
    ELSE 0

\* items.splice(k, 1)
splice(items, k) == SubSeq(items, 1, k - 1) \o SubSeq(items, k + 1, Len(items))

\* items.reduce((sum, item) => sum + item.total, 0)
RECURSIVE sumTotal(_)
sumTotal(items) ==
    IF items = << >> THEN 0 ELSE Head(items).total + sumTotal(Tail(items))

\* items.reduce((sum, item) => sum + item.quantity, 0)
RECURSIVE sumQuantity(_)
sumQuantity(items) ==
    IF items = << >> THEN 0 ELSE Head(items).quantity + sumQuantity(Tail(items))

\* Math.round(x * 100) / 100, money counted in thousandths
round2(x) == ((x + 5) \div 10) * 10

\* the response of a cart route: the lines, the item count and the cart total
CartAnswer(rec, res, items, lines) ==
    [Answer(rec, res) EXCEPT !.out = lines, !.count = sumQuantity(items),
                             !.total = round2(sumTotal(items)), !.cart = 0, !.idx = 0,
                             !.frozen = FALSE, !.arr = << >>, !.held = NoReq.held,
                             !.found = FALSE]

\* an error response of a cart route
CartError(rec, res) ==
    [Answer(rec, res) EXCEPT !.out = << >>, !.cart = 0, !.idx = 0, !.frozen = FALSE,
                             !.arr = << >>, !.held = NoReq.held, !.found = FALSE]

\* items.splice(k, 1) on the array of object obj, seen by the suspended reads
\* that iterate this array: the line they hold moves down or leaves the array
spliced(rq, obj, items, k) ==
    [t \in Reqs |->
        IF rq[t].pc = "get_loop" /\ rq[t].cart = obj /\ ~rq[t].frozen /\ rq[t].held.live
        THEN IF rq[t].held.pos = k
             THEN [rq[t] EXCEPT !.held = [live |-> FALSE, pos |-> 0, rec |-> items[k]]]
             ELSE IF rq[t].held.pos > k
             THEN [rq[t] EXCEPT !.held.pos = @ - 1]
             ELSE rq[t]
        ELSE rq[t]]

\* cart.items = validatedItems on object obj, seen by the other suspended reads
\* that iterate the old array: they go on with the old array
replaced(rq, obj, items, r) ==
    [t \in Reqs |->
        IF t # r /\ rq[t].pc = "get_loop" /\ rq[t].cart = obj /\ ~rq[t].frozen
        THEN [rq[t] EXCEPT !.frozen = TRUE, !.arr = items]
        ELSE rq[t]]

\* getCartForUser(userId): the items of the stored cart, or of a new empty one
getCartForUser(userId) ==
    IF userCarts[userId] # NoObj THEN cartObjs[userCarts[userId]] ELSE NoItems

\* clearCartForUser(userId): userCarts.set(userId, { items: [], ... })
clearCartForUser(userId) ==
    /\ userCarts' = [userCarts EXCEPT ![userId] = newObj]
    /\ cartObjs' = collect([cartObjs EXCEPT ![newObj] = NoItems], userCarts', req')

\* ------------------------------------------------- Product.updateStockSafe
\* the read half: findById, then the two throws, over the documents docs
ussCheck(docs, productId, quantityChange) ==
    IF productId \notin Products THEN "Product not found"
    ELSE IF docs[productId].stock + quantityChange < 0 THEN "Insufficient stock"
    ELSE "ok"

\* variant: the filter without its lock condition
ussFilterAnyLock(doc, currentVersion) ==
    doc.version = currentVersion

\* variant: the filter without its version condition
ussFilterAnyVersion(doc, currentVersion) ==
    doc.isLocked = FALSE

\* the filter of findOneAndUpdate
ussFilter(doc, currentVersion) ==
    doc.version = currentVersion /\ doc.isLocked = FALSE

\* the update of findOneAndUpdate: $inc stock and version
ussUpdate(doc, quantityChange) ==
    [doc EXCEPT !.stock = @ + quantityChange, !.version = @ + 1]

\* which part of the filter matched no document (the code has one message for both)
ussWhy(doc, currentVersion) ==
    IF doc.version # currentVersion /\ doc.isLocked THEN "both"
    ELSE IF doc.version # currentVersion THEN "version"
    ELSE "locked"

ConflictMsg == "concurrent modification or locked"

\* the conditional write of a request outside a transaction (stock route, cancel):
\* it waits while an open transaction holds the document
ussWrite(r, p, q) ==
    /\ ussFilter(products[p], req[r].ver)
    /\ ~HeldByTxn(p, r)
    /\ products' = [products EXCEPT ![p] = ussUpdate(@, q)]
    /\ won' = [won EXCEPT ![p] = Append(@, req[r].ver)]
    /\ writers' = [writers EXCEPT ![p] = @ \cup {req[r].kind}]

\* ---------------------------------------------- PATCH /api/products/:id/stock
PatchStock_Read(r, id, quantityChange) ==
    /\ Arrives(r)
    /\ LET res == ussCheck(products, id, quantityChange)
           rec == [req[r] EXCEPT !.kind = "stock", !.pid = id, !.delta = quantityChange]
       IN  req' = [req EXCEPT ![r] =
                IF res # "ok" THEN Answer(rec, res)
                ELSE [rec EXCEPT !.pc = "uss_cas", !.ver = products[id].version]]
    /\ UNCHANGED <<products, orders, now, won, writers>>
    /\ UNCHANGED cartVars

PatchStock_Cas(r) ==
    /\ At(r, "stock", "uss_cas")
    /\ LET p == req[r].pid
           q == req[r].delta
       IN  \/ /\ ussWrite(r, p, q)
              /\ req' = Touch([req EXCEPT ![r] =
                            Answer([@ EXCEPT !.gain[p] = @ + (products'[p].stock - products[p].stock)],
                                   "ok")], {p}, r)
           \/ /\ ~ussFilter(products[p], req[r].ver)
              /\ req' = [req EXCEPT ![r] =
                            Answer([@ EXCEPT !.why = ussWhy(products[p], req[r].ver)], ConflictMsg)]
              /\ UNCHANGED <<products, won, writers>>
    /\ UNCHANGED <<orders, now>>
    /\ UNCHANGED cartVars

\* ------------------------------------------------ PUT /api/products/:id
\* the bodies of the admin update: stock and isActive are optional
UpdateBodies ==
    [hasStock : {TRUE}, stock : {0, 1}, hasActive : {FALSE}, isActive : {TRUE},
     hasPrice : {FALSE}, price : {1000}]
    \cup [hasStock : {FALSE}, stock : {0}, hasActive : {TRUE}, isActive : BOOLEAN,
          hasPrice : {FALSE}, price : {1000}]

\* findByIdAndUpdate(id, updates): $set of the given fields, nothing else
putUpdate(doc, body) ==
    [doc EXCEPT !.stock = IF body.hasStock THEN body.stock ELSE @,
                !.isActive = IF body.hasActive THEN body.isActive ELSE @,
                !.price = IF body.hasPrice THEN body.price ELSE @]

PutProduct(r, id, body) ==
    /\ Arrives(r)
    /\ LET rec == [req[r] EXCEPT !.kind = "update", !.pid = id]
       IN  IF id \in Products
           THEN /\ ~HeldByTxn(id, r)
                /\ products' = [products EXCEPT ![id] = putUpdate(@, body)]
                /\ writers' = [writers EXCEPT ![id] =
                                  IF body.hasStock THEN @ \cup {"update"} ELSE @]
                /\ req' = Touch([req EXCEPT ![r] =
                          Answer([rec EXCEPT !.gain[id] = products'[id].stock - products[id].stock,
                                             !.pre = products[id]],
                                 "ok")], {id}, r)
           ELSE /\ req' = [req EXCEPT ![r] = Answer(rec, "Product not found")]
                /\ UNCHANGED <<products, writers>>
    /\ UNCHANGED <<orders, now, won>>
    /\ UNCHANGED cartVars

\* ------------------------------------------------- Product.lockProduct
\* $lt of a Date against a null field matches nothing
dateLt(d, t) == d # NullDate /\ d[1] < t

\* variant: $lte in place of $lt
lockFilterLte(doc, lockTimeout) ==
    doc.isLocked = FALSE \/ (doc.lockedAt # NullDate /\ doc.lockedAt[1] <= lockTimeout)

lockFilter(doc, lockTimeout) ==
    doc.isLocked = FALSE \/ dateLt(doc.lockedAt, lockTimeout)

lockUpdate(doc, userId, date) ==
    [doc EXCEPT !.isLocked = TRUE, !.lockedAt = <<date>>, !.lockedBy = userId]

LockedMsg == "Product is currently locked"

lockProduct(r, productId, userId) ==
    /\ Arrives(r)
    /\ LET rec == [req[r] EXCEPT !.kind = "lock", !.pid = productId, !.user = userId,
                                 !.pre = IF productId \in Products THEN products[productId]
                                         ELSE @]
       IN  IF productId \in Products /\ lockFilter(products[productId], now - LockTimeout)
           THEN /\ ~HeldByTxn(productId, r)
                /\ products' = [products EXCEPT ![productId] = lockUpdate(@, userId, now)]
                /\ req' = Touch([req EXCEPT ![r] = Answer(rec, "ok")], {productId}, r)
           ELSE /\ req' = [req EXCEPT ![r] = Answer(rec, LockedMsg)]
                /\ UNCHANGED products
    /\ UNCHANGED <<orders, now, won, writers>>
    /\ UNCHANGED cartVars

\* ------------------------------------------------ Product.unlockProduct
\* variant: a release that does not compare the holder
unlockFilterAnyone(doc, userId) ==
    doc.isLocked

unlockFilter(doc, userId) == doc.lockedBy = userId

\* variant: a release that clears the flag only
unlockUpdateFlag(doc) ==
    [doc EXCEPT !.isLocked = FALSE]

unlockUpdate(doc) ==
    [doc EXCEPT !.isLocked = FALSE, !.lockedAt = NullDate, !.lockedBy = NullId]

unlockProduct(r, productId, userId) ==
    /\ Arrives(r)
    /\ LET rec == [req[r] EXCEPT !.kind = "unlock", !.pid = productId, !.user = userId,
                                 !.pre = IF productId \in Products THEN products[productId]
                                         ELSE @]
       IN  IF productId \in Products /\ unlockFilter(products[productId], userId)
           THEN /\ ~HeldByTxn(productId, r)
                /\ products' = [products EXCEPT ![productId] = unlockUpdate(@)]
                /\ req' = Touch([req EXCEPT ![r] = Answer(rec, "ok")], {productId}, r)
           ELSE /\ req' = [req EXCEPT ![r] = Answer(rec, "null")]
                /\ UNCHANGED products
    /\ UNCHANGED <<orders, now, won, writers>>
    /\ UNCHANGED cartVars

\* ------------------------------------------------------------- the clock
\* Time is read only against lockedAt: it advances while a lock is recorded.
Tick ==
    /\ Quiet
    /\ now < MaxTime
    /\ \E p \in Products : products[p].isLocked
    /\ now' = now + 1
    /\ UNCHANGED <<products, orders, req, won, writers>>
    /\ UNCHANGED cartVars

\* ------------------------------------------------------ POST /api/orders
\* variant: Step 1 without its stock comparison
validateItemNoStock(docs, item) ==
    IF item.productId \notin Products \/ ~docs[item.productId].isActive
    THEN "no longer available"
    ELSE "ok"

\* Step 1 for one line, read through the transaction's snapshot
validateItem(docs, item) ==
    IF item.productId \notin Products \/ ~docs[item.productId].isActive
    THEN "no longer available"
    ELSE IF docs[item.productId].stock < item.quantity THEN "Insufficient stock"
    ELSE "ok"

\* variant: a Step 1 that looks at the first line only
validateItemsFirst(docs, items, i) ==
    validateItem(docs, items[1])

\* Step 1: the loop over the lines stops at the first throw
RECURSIVE validateItems(_, _, _)
validateItems(docs, items, i) ==
    IF i > Len(items) THEN "ok"
    ELSE IF validateItem(docs, items[i]) # "ok" THEN validateItem(docs, items[i])
    ELSE validateItems(docs, items, i + 1)

\* The callback of withTransaction up to Step 2.  The first findById opens the
\* transaction and fixes its snapshot: every read of Step 1 is from it.
txnBegin(rec, docs) ==
    LET res == validateItems(docs, rec.items, 1)
    IN  IF res # "ok" THEN Answer([rec EXCEPT !.snap = docs], res)
        ELSE [rec EXCEPT !.pc = "create", !.view = docs, !.snap = docs, !.ins = FALSE,
                         !.wset = {}, !.stale = {}, !.reads = << >>]

PostOrder_Begin(r, userId, items) ==
    /\ Arrives(r)
    /\ req' = [req EXCEPT ![r] =
                  txnBegin([@ EXCEPT !.kind = "order", !.user = userId, !.items = items],
                           products)]
    /\ UNCHANGED <<products, orders, now, won, writers>>
    /\ UNCHANGED cartVars

\* Step 2: Order.createOrderWithTransaction, an insert inside the transaction
PostOrder_Create(r) ==
    /\ At(r, "order", "create")
    /\ req' = [req EXCEPT ![r] = [@ EXCEPT !.pc = "txn_uss", !.i = 1, !.ins = TRUE]]
    /\ UNCHANGED <<products, orders, now, won, writers>>
    /\ UNCHANGED cartVars

\* variant: a store that does not compare the document with the snapshot
writeConflictHeldOnly(r, p) ==
    p \notin req[r].wset /\ HeldByTxn(p, r)

\* a write inside the transaction meets a WriteConflict
writeConflict(r, p) ==
    p \notin req[r].wset /\ (p \in req[r].stale \/ HeldByTxn(p, r))

\* the callback is left with a TransientTransactionError: withTransaction
\* aborts the transaction and runs the callback again
txnAbort(rec) ==
    [rec EXCEPT !.pc = "begin", !.i = 0, !.ver = 0, !.view = NoReq.view, !.ins = FALSE,
                !.wset = {}, !.stale = {}, !.snap = NoReq.snap, !.reads = << >>]

\* variant: a counter of orders, not of units
soldUpdateOne(doc, quantity) == [doc EXCEPT !.totalSold = @ + 1]

\* Step 3: findByIdAndUpdate $inc totalSold, on the document just written
soldUpdate(doc, quantity) == [doc EXCEPT !.totalSold = @ + quantity]

\* Step 3 for line i: updateStockSafe(item.productId, -item.quantity, session),
\* then $inc totalSold.  Its reads are of the snapshot and the transaction's
\* own writes; only the first write of a document looks at the other requests.
txnUss(r, rec) ==
    LET item == rec.items[rec.i]
        p == item.productId
        res == ussCheck(rec.view, p, 0 - item.quantity)
        last == rec.i = Len(rec.items)
    IN  IF res # "ok" THEN Answer(rec, res)
        ELSE IF ~ussFilter(rec.view[p], rec.view[p].version)
        THEN Answer([rec EXCEPT !.why = ussWhy(rec.view[p], rec.view[p].version)], ConflictMsg)
        ELSE IF writeConflict(r, p) THEN txnAbort(rec)
        ELSE [rec EXCEPT !.view[p] = soldUpdate(ussUpdate(@, 0 - item.quantity), item.quantity),
                         !.wset = @ \cup {p},
                         !.reads = Append(@, <<p, rec.view[p].version>>),
                         !.pc = IF last THEN "commit" ELSE "txn_uss",
                         !.i = IF last THEN @ ELSE @ + 1]

PostOrder_Uss(r) ==
    /\ At(r, "order", "txn_uss")
    /\ req' = [req EXCEPT ![r] = txnUss(r, @)]
    /\ UNCHANGED <<products, orders, now, won, writers>>
    /\ UNCHANGED cartVars

\* Step 1: the order line of a validated item, priced from the snapshot
orderItem(docs, item) ==
    [productId |-> item.productId, quantity |-> item.quantity,
     price |-> docs[item.productId].price,
     total |-> item.quantity * docs[item.productId].price]

\* Step 1: orderItems, one line per item of the request
orderItems(docs, items) == [k \in DOMAIN items |-> orderItem(docs, items[k])]

\* the order document of Step 2; totalAmount is the rounded sum of the totals
orderData(r) ==
    [userId |-> req[r].user, items |-> orderItems(req[r].snap, req[r].items),
     totalAmount |-> round2(sumTotal(orderItems(req[r].snap, req[r].items))),
     status |-> "pending", by |-> r]

\* variant: a commit that loses the transaction's product writes
commitProductsNone(docs, view, wset) ==
    docs

\* the documents the store holds once r's transaction has committed
commitProducts(docs, view, wset) ==
    [p \in Products |-> IF p \in wset THEN view[p] ELSE docs[p]]

commitOrders(ords, r) ==
    IF req[r].ins THEN Append(ords, orderData(r)) ELSE ords

\* history: the versions the transaction's adjustments of p read, in order
RECURSIVE versionsRead(_, _)
versionsRead(reads, p) ==
    IF reads = << >> THEN << >>
    ELSE (IF Head(reads)[1] = p THEN <<Head(reads)[2]>> ELSE << >>)
         \o versionsRead(Tail(reads), p)

\* the callback returned: commitTransaction
PostOrder_Commit(r) ==
    /\ At(r, "order", "commit")
    /\ products' = commitProducts(products, req[r].view, req[r].wset)
    /\ orders' = commitOrders(orders, r)
    /\ won' = [p \in Products |-> won[p] \o versionsRead(req[r].reads, p)]
    /\ writers' = [p \in Products |->
                      IF p \in req[r].wset THEN writers[p] \cup {"order"} ELSE writers[p]]
    /\ req' = Touch([req EXCEPT ![r] =
                  Answer([@ EXCEPT !.oid = Len(orders'),
                                   !.gain = [p \in Products |->
                                        products'[p].stock - products[p].stock]],
                         "Order placed")], req[r].wset, r)
    /\ clearCartForUser(req[r].user)
    /\ UNCHANGED now

\* withTransaction runs the callback again, with a new transaction
PostOrder_Retry(r) ==
    /\ At(r, "order", "begin")
    /\ req' = [req EXCEPT ![r] = txnBegin(@, products)]
    /\ UNCHANGED <<products, orders, now, won, writers>>
    /\ UNCHANGED cartVars

\* withTransaction stops retrying when its time limit has passed
PostOrder_GiveUp(r) ==
    /\ At(r, "order", "begin")
    /\ req' = [req EXCEPT ![r] = Answer(@, "Failed to create order")]
    /\ UNCHANGED <<products, orders, now, won, writers>>
    /\ UNCHANGED cartVars

\* ------------------------------------------- PATCH /api/orders/:id/cancel
OrderIds == 1..MaxReqs

\* variant: a guard that lets a processing order through
cancellableProcessing(order) ==
    order.status \in {"pending", "processing"}

\* the guard of the route: order.status !== 'pending' is a 400
cancellable(order) == order.status = "pending"

InvalidMsg == "Cannot cancel order"

PatchCancel_Find(r, userId, id) ==
    /\ Arrives(r)
    /\ LET rec == [req[r] EXCEPT !.kind = "cancel", !.user = userId, !.oid = id]
       IN  req' = [req EXCEPT ![r] =
                IF id > Len(orders) \/ orders[id].userId # userId
                THEN Answer(rec, "Order not found")
                ELSE IF ~cancellable(orders[id])
                THEN Answer([rec EXCEPT !.why = orders[id].status], InvalidMsg)
                ELSE [rec EXCEPT !.pc = "save", !.why = orders[id].status,
                                 !.items = orders[id].items]]
    /\ UNCHANGED <<products, orders, now, won, writers>>
    /\ UNCHANGED cartVars

\* variant: a save that writes nothing
PatchCancel_SaveNothing(r) ==
    /\ At(r, "cancel", "save")
    /\ req' = [req EXCEPT ![r] = [@ EXCEPT !.pc = "uss_read", !.i = 1]]
    /\ UNCHANGED <<products, orders, now, won, writers>>
    /\ UNCHANGED cartVars

\* order.status = 'cancelled'; order.save(): $set of the modified path
PatchCancel_Save(r) ==
    /\ At(r, "cancel", "save")
    /\ orders' = [orders EXCEPT ![req[r].oid].status = "cancelled"]
    /\ req' = [req EXCEPT ![r] = [@ EXCEPT !.pc = "uss_read", !.i = 1]]
    /\ UNCHANGED <<products, now, won, writers>>
    /\ UNCHANGED cartVars

CancelMsg == "Order cancelled"

\* variant: the error of the adjustment reaches the outer catch
restoreFailedThrows(rec, why) ==
    Answer([rec EXCEPT !.fail = TRUE, !.why = why], "Failed to cancel order")

\* catch (stockError): the error is logged, the loop is over, the response is
\* the success response
restoreFailed(rec, why) == Answer([rec EXCEPT !.fail = TRUE, !.why = why], CancelMsg)

\* updateStockSafe(item.productId, item.quantity): findById; a throw is caught
\* and logged, and ends the loop
PatchCancel_UssRead(r) ==
    /\ At(r, "cancel", "uss_read")
    /\ LET item == req[r].items[req[r].i]
           res == ussCheck(products, item.productId, item.quantity)
       IN  req' = [req EXCEPT ![r] =
                IF res # "ok" THEN restoreFailed(@, res)
                ELSE [@ EXCEPT !.pc = "uss_cas", !.ver = products[item.productId].version]]
    /\ UNCHANGED <<products, orders, now, won, writers>>
    /\ UNCHANGED cartVars

PatchCancel_UssCas(r) ==
    /\ At(r, "cancel", "uss_cas")
    /\ LET p == req[r].items[req[r].i].productId
           q == req[r].items[req[r].i].quantity
           last == req[r].i = Len(req[r].items)
       IN  \/ /\ ussWrite(r, p, q)
              /\ req' = Touch([req EXCEPT ![r] =
                     LET rec == [@ EXCEPT !.gain[p] = @ + (products'[p].stock - products[p].stock)]
                     IN  IF last THEN Answer(rec, CancelMsg)
                         ELSE [rec EXCEPT !.pc = "uss_read", !.i = @ + 1]], {p}, r)
           \/ /\ ~ussFilter(products[p], req[r].ver)
              /\ req' = [req EXCEPT ![r] =
                     restoreFailed(@, ussWhy(products[p], req[r].ver))]
              /\ UNCHANGED <<products, won, writers>>
    /\ UNCHANGED <<orders, now>>
    /\ UNCHANGED cartVars

\* ------------------------------------------- PATCH /api/orders/:id/status
\* findByIdAndUpdate(id, {status}, {new: true}); the restore branch tests the
\* returned, already updated document
PatchStatus(r, id, status) ==
    /\ Arrives(r)
    /\ LET rec == [req[r] EXCEPT !.kind = "status", !.oid = id]
       IN  IF id <= Len(orders)
           THEN LET order == [orders[id] EXCEPT !.status = status]
                IN  /\ orders' = [orders EXCEPT ![id] = order]
                    /\ req' = [req EXCEPT ![r] =
                           Answer([rec EXCEPT !.why = orders[id].status,
                                              !.fail = (status = "cancelled" /\ order.status # "cancelled")],
                                  "ok")]
           ELSE /\ req' = [req EXCEPT ![r] = Answer(rec, "Order not found")]
                /\ UNCHANGED orders
    /\ UNCHANGED <<products, now, won, writers>>
    /\ UNCHANGED cartVars

\* ------------------------------------------------------ POST /api/cart/add
\* up to the await: Product.findOne({_id, isActive: true}), and the two
\* responses that depend on the product alone
CartAdd_Read(r, userId, productId, quantity) ==
    /\ Arrives(r)
    /\ LET rec == [req[r] EXCEPT !.kind = "add", !.user = userId, !.pid = productId,
                                 !.delta = quantity, !.before = getCartForUser(userId)]
       IN  req' = [req EXCEPT ![r] =
                IF ~findActive(products, productId)
                THEN CartError(rec, "Product not found or unavailable")
                ELSE IF products[productId].stock < quantity
                THEN CartError(rec, "Insufficient stock")
                ELSE [rec EXCEPT !.pc = "add_cart", !.pre = products[productId],
                                 !.before = << >>]]
    /\ UNCHANGED <<products, orders, now, won, writers, cartVars>>

\* the line of the cart after the merge: quantity and total are rewritten, the
\* stored price is not
mergedItem(item, product, newQuantity) ==
    [item EXCEPT !.quantity = newQuantity, !.total = newQuantity * product.price]

\* after the await: get or create the cart, merge or push the line, store
CartAdd_Cart(r) ==
    /\ At(r, "add", "add_cart")
    /\ LET userId == req[r].user
           productId == req[r].pid
           quantity == req[r].delta
           product == req[r].pre
           cart == IF userCarts[userId] # NoObj THEN userCarts[userId] ELSE newObj
           items == IF userCarts[userId] # NoObj THEN cartObjs[cart] ELSE NoItems
           k == findIndex(items, productId)
           rec == [req[r] EXCEPT !.before = items]
       IN  IF k > 0 /\ product.stock < items[k].quantity + quantity
           THEN /\ req' = [req EXCEPT ![r] = CartError(rec, "Insufficient stock")]
                /\ UNCHANGED cartVars
           ELSE LET after == IF k > 0
                             THEN [items EXCEPT ![k] =
                                      mergedItem(@, product, items[k].quantity + quantity)]
                             ELSE Append(items, CartItem(productId, product.price, quantity,
                                                         quantity * product.price))
                IN  /\ req' = [req EXCEPT ![r] =
                              CartAnswer(rec, "Item added to cart",
                                         after, <<after[findIndex(after, productId)]>>)]
                    /\ userCarts' = [userCarts EXCEPT ![userId] = cart]
                    /\ cartObjs' = collect([cartObjs EXCEPT ![cart] = after], userCarts', req')
    /\ UNCHANGED <<products, orders, now, won, writers>>

\* ---------------------------------------------------------- GET /api/cart
\* variant: a read that keeps the stored price and total
updatedItemStored(item, product) ==
    [item EXCEPT !.annotated = TRUE, !.availableStock = product.stock,
                 !.inStock = (product.stock >= item.quantity)]

\* the line of the response: the stored line with the product's values
updatedItem(item, product) ==
    [item EXCEPT !.price = product.price, !.total = item.quantity * product.price,
                 !.annotated = TRUE, !.availableStock = product.stock,
                 !.inStock = (product.stock >= item.quantity)]

\* the for...of loop takes the line at position i and issues its findOne
getFetch(rec, items, i) ==
    [rec EXCEPT !.pc = "get_loop", !.i = i,
                !.held = [live |-> TRUE, pos |-> i, rec |-> << >>],
                !.found = findActive(products, items[i].productId),
                !.pre = IF findActive(products, items[i].productId)
                        THEN products[items[i].productId] ELSE NoReq.pre]

\* the loop is over: cart.items = validatedItems, userCarts.set, the response
getFinish(r, rec, cart, validated) ==
    /\ userCarts' = [userCarts EXCEPT ![rec.user] = cart]
    /\ req' = replaced([req EXCEPT ![r] =
                  CartAnswer([rec EXCEPT !.before = getCartForUser(rec.user)],
                             "Cart retrieved", validated, validated)],
                       cart, cartObjs[cart], r)
    /\ cartObjs' = collect([cartObjs EXCEPT ![cart] = validated], userCarts', req')

\* up to the first await
CartGet_Begin(r, userId) ==
    /\ Arrives(r)
    /\ LET cart == IF userCarts[userId] # NoObj THEN userCarts[userId] ELSE newObj
           items == IF userCarts[userId] # NoObj THEN cartObjs[cart] ELSE NoItems
           rec == [req[r] EXCEPT !.kind = "get", !.user = userId, !.cart = cart,
                                 !.alone = \A s \in Reqs \ {r} : ~ InFlight(s)]
       IN  IF items = << >>
           THEN getFinish(r, rec, cart, << >>)
           ELSE /\ req' = [req EXCEPT ![r] = getFetch(rec, items, 1)]
                /\ UNCHANGED cartVars
    /\ UNCHANGED <<products, orders, now, won, writers>>

\* after an await: the held line, read now, goes to validatedItems with the
\* product that was fetched for it; then the next line, or the end of the loop
CartGet_Step(r) ==
    /\ At(r, "get", "get_loop")
    /\ LET rec == req[r]
           items == IF rec.frozen THEN rec.arr ELSE cartObjs[rec.cart]
           item == IF rec.held.live THEN items[rec.held.pos] ELSE rec.held.rec
           validated == IF rec.found THEN Append(rec.out, updatedItem(item, rec.pre))
                        ELSE rec.out
       IN  IF rec.i + 1 <= Len(items)
           THEN /\ req' = [req EXCEPT ![r] =
                              getFetch([rec EXCEPT !.out = validated], items, rec.i + 1)]
                /\ UNCHANGED cartVars
           ELSE getFinish(r, rec, rec.cart, validated)
    /\ UNCHANGED <<products, orders, now, won, writers>>

\* ------------------------------------------- PUT /api/cart/item/:productId
\* up to the await, or to the response when there is no await
CartPut_Begin(r, userId, productId, quantity) ==
    /\ Arrives(r)
    /\ LET present == userCarts[userId] # NoObj
           cart == IF present THEN userCarts[userId] ELSE newObj
           items == IF present THEN cartObjs[cart] ELSE NoItems
           itemIndex == findIndex(items, productId)
           rec == [req[r] EXCEPT !.kind = "put", !.user = userId, !.pid = productId,
                                 !.delta = quantity, !.before = items]
       IN  IF itemIndex = 0
           THEN /\ req' = [req EXCEPT ![r] = CartError(rec, "Item not found in cart")]
                /\ UNCHANGED cartVars
           ELSE IF quantity = 0
           THEN /\ req' = spliced([req EXCEPT ![r] =
                              CartAnswer(rec, "Item removed from cart",
                                         splice(items, itemIndex), splice(items, itemIndex))],
                                  cart, items, itemIndex)
                /\ userCarts' = [userCarts EXCEPT ![userId] = cart]
                /\ cartObjs' = collect([cartObjs EXCEPT ![cart] = splice(items, itemIndex)],
                                       userCarts', req')
           ELSE /\ req' = [req EXCEPT ![r] =
                      IF ~findActive(products, productId)
                      THEN CartError(rec, "Product not found or unavailable")
                      ELSE IF products[productId].stock < quantity
                      THEN CartError(rec, "Insufficient stock")
                      ELSE [rec EXCEPT !.pc = "put_cart", !.cart = cart, !.idx = itemIndex,
                                       !.pre = products[productId], !.before = << >>]]
                /\ UNCHANGED cartVars
    /\ UNCHANGED <<products, orders, now, won, writers>>

\* cart.items[itemIndex].quantity = quantity; total = quantity * stored price
quantityItem(item, quantity) ==
    [item EXCEPT !.quantity = quantity, !.total = quantity * item.price]

\* after the await: the write through the index found before it; an index past
\* the end of the array is a TypeError, answered by the catch
CartPut_Cart(r) ==
    /\ At(r, "put", "put_cart")
    /\ LET rec == [req[r] EXCEPT !.before = cartObjs[req[r].cart]]
           cart == rec.cart
           items == cartObjs[cart]
       IN  IF rec.idx > Len(items)
           THEN /\ req' = [req EXCEPT ![r] = CartError(rec, "Failed to update cart")]
                /\ userCarts' = userCarts
                /\ cartObjs' = collect(cartObjs, userCarts', req')
           ELSE LET after == [items EXCEPT ![rec.idx] = quantityItem(@, rec.delta)]
                IN  /\ req' = [req EXCEPT ![r] =
                              CartAnswer(rec, "Cart updated", after, after)]
                    /\ userCarts' = [userCarts EXCEPT ![rec.user] = cart]
                    /\ cartObjs' = collect([cartObjs EXCEPT ![cart] = after], userCarts', req')
    /\ UNCHANGED <<products, orders, now, won, writers>>

\* ---------------------------------------- DELETE /api/cart/item/:productId
CartRemove(r, userId, productId) ==
    /\ Arrives(r)
    /\ LET present == userCarts[userId] # NoObj
           cart == IF present THEN userCarts[userId] ELSE newObj
           items == IF present THEN cartObjs[cart] ELSE NoItems
           itemIndex == findIndex(items, productId)
           rec == [req[r] EXCEPT !.kind = "remove", !.user = userId, !.pid = productId,
                                 !.before = items]
       IN  IF itemIndex = 0
           THEN /\ req' = [req EXCEPT ![r] = CartError(rec, "Item not found in cart")]
                /\ UNCHANGED cartVars
           ELSE /\ req' = spliced([req EXCEPT ![r] =
                              CartAnswer(rec, "Item removed from cart",
                                         splice(items, itemIndex), splice(items, itemIndex))],
                                  cart, items, itemIndex)
                /\ userCarts' = [userCarts EXCEPT ![userId] = cart]
                /\ cartObjs' = collect([cartObjs EXCEPT ![cart] = splice(items, itemIndex)],
                                       userCarts', req')
    /\ UNCHANGED <<products, orders, now, won, writers>>

\* ------------------------------------------------------- DELETE /api/cart
CartClear(r, userId) ==
    /\ Arrives(r)
    /\ req' = [req EXCEPT ![r] =
                  CartAnswer([@ EXCEPT !.kind = "clear", !.user = userId,
                                       !.before = getCartForUser(userId)],
                             "Cart cleared", << >>, << >>)]
    /\ clearCartForUser(userId)
    /\ UNCHANGED <<products, orders, now, won, writers>>

\* -------------------------------------------------- GET /api/cart/summary
\* the sums over the stored lines
CartSummary(r, userId) ==
    /\ Arrives(r)
    /\ LET items == getCartForUser(userId)
       IN  req' = [req EXCEPT ![r] =
                     CartAnswer([@ EXCEPT !.kind = "summary", !.user = userId,
                                          !.before = items],
                                "ok", items, << >>)]
    /\ UNCHANGED <<products, orders, now, won, writers, cartVars>>

\* ---------------------------------------------------------- the program
Init ==
    /\ products = [p \in Products |-> NewProduct]
    /\ orders = << >>
    /\ now = 0
    /\ req = [r \in Reqs |-> NoReq]
    /\ won = [p \in Products |-> << >>]
    /\ writers = [p \in Products |-> {}]
    /\ userCarts = [u \in CartUsers |-> NoObj]
    /\ cartObjs = [o \in ObjIds |-> NoItems]

\* the order pipeline, with the catalogue and lock operations around it
Next ==
    \/ \E r \in StoreReqs, id \in Products, body \in UpdateBodies : PutProduct(r, id, body)
    \/ \E r \in StoreReqs, id \in Products : lockProduct(r, id, Admin)
    \/ \E r \in StoreReqs, items \in ItemLists : PostOrder_Begin(r, Customer, items)
    \/ \E r \in Reqs : PostOrder_Create(r)
    \/ \E r \in Reqs : PostOrder_Uss(r)
    \/ \E r \in Reqs : PostOrder_Commit(r)
    \/ \E r \in Reqs : PostOrder_Retry(r)
    \/ \E r \in Reqs : PostOrder_GiveUp(r)
    \/ \E r \in StoreReqs, u \in Users, id \in OrderIds : PatchCancel_Find(r, u, id)
    \/ \E r \in Reqs : PatchCancel_Save(r)
    \/ \E r \in Reqs : PatchCancel_UssRead(r)
    \/ \E r \in Reqs : PatchCancel_UssCas(r)
    \/ \E r \in StoreReqs, id \in OrderIds, st \in OrderStatuses : PatchStatus(r, id, st)
    \/ \E r \in Reqs : Respond(r)

Spec == Init /\ [][Next]_vars

\* the concurrency controller: the stock route, the catalogue update and the locks
NextStock ==
    \/ \E r \in StoreReqs, id \in ProductIds, q \in Deltas : PatchStock_Read(r, id, q)
    \/ \E r \in Reqs : PatchStock_Cas(r)
    \/ \E r \in StoreReqs, id \in ProductIds, body \in UpdateBodies : PutProduct(r, id, body)
    \/ \E r \in StoreReqs, id \in ProductIds, u \in Users : lockProduct(r, id, u)
    \/ \E r \in StoreReqs, id \in ProductIds, u \in Users : unlockProduct(r, id, u)
    \/ \E r \in Reqs : Respond(r)
    \/ Tick

SpecStock == Init /\ [][NextStock]_vars

\* the bodies of the admin update that the cart sees: a new price, a
\* deactivation, a smaller stock
CartBodies ==
    [hasStock : {FALSE}, stock : {0}, hasActive : {FALSE}, isActive : {TRUE},
     hasPrice : {TRUE}, price : {2004}]
    \cup [hasStock : {FALSE}, stock : {0}, hasActive : {TRUE}, isActive : {FALSE},
          hasPrice : {FALSE}, price : {1000}]
    \cup [hasStock : {TRUE}, stock : {1}, hasActive : {FALSE}, isActive : {TRUE},
          hasPrice : {FALSE}, price : {1000}]

\* the bodies of POST /add: any quantity of p1, one unit of p2 and of a product
\* that does not exist
AddBodies ==
    {<<"p1", q>> : q \in Quantities} \cup {<<"p2", 1>>, <<NoProduct, 1>>}

\* the quantities of PUT /item/:productId: removal, or the largest quantity
PutQuantities == {0, MaxQty}

\* the cart routes, with the catalogue update around them
NextCart ==
    \/ \E r \in Reqs, b \in AddBodies : CartAdd_Read(r, Customer, b[1], b[2])
    \/ \E r \in Reqs : CartAdd_Cart(r)
    \/ \E r \in Reqs : CartGet_Begin(r, Customer)
    \/ \E r \in Reqs : CartGet_Step(r)
    \/ \E r \in Reqs, q \in PutQuantities : CartPut_Begin(r, Customer, "p1", q)
    \/ \E r \in Reqs : CartPut_Cart(r)
    \/ \E r \in Reqs, id \in Products : CartRemove(r, Customer, id)
    \/ \E r \in Reqs : CartClear(r, Customer)
    \/ \E r \in Reqs : CartSummary(r, Customer)
    \/ \E r \in Reqs, body \in CartBodies : PutProduct(r, "p1", body)
    \/ \E r \in Reqs : Respond(r)

SpecCart == Init /\ [][NextCart]_vars

\* the cart of a customer who places orders
NextCheckout ==
    \/ \E r \in StoreReqs, id \in Products : CartAdd_Read(r, Customer, id, 1)
    \/ \E r \in Reqs : CartAdd_Cart(r)
    \/ \E r \in StoreReqs : CartGet_Begin(r, Customer)
    \/ \E r \in Reqs : CartGet_Step(r)
    \/ \E r \in StoreReqs, items \in ItemLists : PostOrder_Begin(r, Customer, items)
    \/ \E r \in Reqs : PostOrder_Create(r)
    \/ \E r \in Reqs : PostOrder_Uss(r)
    \/ \E r \in Reqs : PostOrder_Commit(r)
    \/ \E r \in Reqs : PostOrder_Retry(r)
    \/ \E r \in Reqs : PostOrder_GiveUp(r)
    \/ \E r \in Reqs : Respond(r)

SpecCheckout == Init /\ [][NextCheckout]_vars

\* order placement while the catalogue changes
NextPlace ==
    \/ \E r \in StoreReqs, body \in CartBodies : PutProduct(r, "p1", body)
    \/ \E r \in StoreReqs, items \in ItemLists : PostOrder_Begin(r, Customer, items)
    \/ \E r \in Reqs : PostOrder_Create(r)
    \/ \E r \in Reqs : PostOrder_Uss(r)
    \/ \E r \in Reqs : PostOrder_Commit(r)
    \/ \E r \in Reqs : PostOrder_Retry(r)
    \/ \E r \in Reqs : PostOrder_GiveUp(r)
    \/ \E r \in Reqs : Respond(r)

SpecPlace == Init /\ [][NextPlace]_vars

\* the steps of the placement r after its arrival
PostOrder_Step(r) ==
    \/ PostOrder_Create(r)
    \/ PostOrder_Uss(r)
    \/ PostOrder_Commit(r)
    \/ PostOrder_Retry(r)
    \/ PostOrder_GiveUp(r)
    \/ Respond(r)

\* The event loop resumes every handler whose await has settled, and
\* withTransaction stops running the callback again once its time limit has
\* passed: a placement that is aborted again and again is given up.
Fairness == \A r \in Reqs : WF_vars(PostOrder_Step(r)) /\ SF_vars(PostOrder_GiveUp(r))

\* placements alone, each of them scheduled fairly
NextPlacements ==
    \/ \E r \in 1..MaxPlacements, items \in ItemLists : PostOrder_Begin(r, Customer, items)
    \/ \E r \in Reqs : PostOrder_Step(r)

FairPlace == Init /\ [][NextPlacements]_vars /\ Fairness

\* ============================================================== properties
\* vocabulary of the properties

\* the units of product p on the lines of an order
RECURSIVE LineSum(_, _)
LineSum(items, p) ==
    IF items = << >> THEN 0
    ELSE (IF Head(items).productId = p THEN Head(items).quantity ELSE 0)
         + LineSum(Tail(items), p)

\* the units of product p on the lines of the first n committed orders
RECURSIVE OrderedUpTo(_, _)
OrderedUpTo(n, p) ==
    IF n = 0 THEN 0 ELSE LineSum(orders[n].items, p) + OrderedUpTo(n - 1, p)

Ordered(p) == OrderedUpTo(Len(orders), p)

\* request r took a step
Moved(r) == req'[r].pc # req[r].pc \/ req'[r].i # req[r].i

NoGain == [p \in Products |-> 0]

\* ---------------------------------------------------------------------- C1
\* C1: in every reachable state the stock of every product is at least zero,
\* whatever the interleaving of the operations that write stock.
C1_StockNeverNegative ==
    \A p \in Products : products[p].stock >= 0

\* ---------------------------------------------------------------------- C2
\* C2: of the conditional adjustments of one product that read the same
\* version at most one succeeds, and that one moves the version from the one
\* it read to the next and the stock by its delta; an adjustment that fails
\* with a conflict changes neither stock nor version, is not tried again, and
\* when the version it read was no longer the stored one it has lost to a
\* successful adjustment of that very version.  With these adjustments as the
\* only writers the stock stays non-negative.
C2_OneWinnerPerVersion ==
    [][/\ \A p \in Products :
            /\ \A i, j \in DOMAIN won'[p] : i # j => won'[p][i] # won'[p][j]
            /\ writers'[p] \subseteq {"stock"} => products'[p].stock >= 0
       /\ \A r \in Reqs :
            (req[r].kind = "stock" /\ req[r].pc = "uss_cas" /\ Moved(r)) =>
                LET p == req[r].pid
                    rec == req'[r]
                IN  /\ rec.pc = "done"
                    /\ rec.result \in {"ok", ConflictMsg}
                    /\ rec.result = "ok" =>
                         /\ products[p].version = req[r].ver
                         /\ products'[p].version = req[r].ver + 1
                         /\ products'[p].stock = products[p].stock + req[r].delta
                    /\ rec.result = ConflictMsg =>
                         /\ products' = products
                         /\ products[p].version # req[r].ver =>
                              \E i \in DOMAIN won[p] : won[p][i] = req[r].ver
       /\ \A r \in Reqs :
            (req[r].kind = "stock" /\ req[r].pc = "done") => req'[r].pc \in {"done", "gone"}
      ]_vars

\* two adjustments of p1 by -MaxQty read version 0; one has won, the other has
\* just failed on the version
C2_Witness ==
    \E r \in Reqs :
        /\ req[r].kind = "stock" /\ req[r].pc = "done" /\ req[r].result = ConflictMsg
        /\ req[r].pid = "p1" /\ req[r].ver = 0 /\ req[r].delta = 0 - MaxQty
        /\ req[r].why = "version"
        /\ won["p1"] = <<0>>
        /\ products["p1"].version = 1
        /\ products["p1"].stock = InitStock - MaxQty

\* ---------------------------------------------------------------------- C3
\* C3: every step that changes a product's stock strictly increases its
\* version, and no step decreases a version.
C3_StockChangeRaisesVersion ==
    [][\A p \in Products :
          /\ products'[p].stock # products[p].stock =>
                products'[p].version > products[p].version
          /\ products'[p].version >= products[p].version
      ]_vars

\* ---------------------------------------------------------------------- C4
\* what the validation of order placement asks of one line
LineValid(docs, item) ==
    /\ item.productId \in Products
    /\ docs[item.productId].isActive
    /\ docs[item.productId].stock >= item.quantity

ValidationErrors == {"no longer available", "Insufficient stock"}

\* C4: an order placement that reads a line whose product is missing, inactive
\* or short of stock goes no further than its validation: it ends there with
\* the validation error, the step writes no product and no order (the lines
\* that passed included), and no order of the request is recorded.
C4_ValidationFailureWritesNothing ==
    [][\A r \in Reqs :
          LET rec == req'[r]
          IN  (/\ rec.kind = "order"
               /\ \E k \in DOMAIN rec.items : ~LineValid(rec.snap, rec.items[k])) =>
                  /\ rec.pc = "done"
                  /\ rec.result \in ValidationErrors
                  /\ rec.i = 0
                  /\ products' = products
                  /\ orders' = orders
                  /\ \A o \in DOMAIN orders' : orders'[o].by # r
      ]_vars

\* an order of two lines: the first passes validation, the product of the
\* second does not exist
C4_Witness ==
    \E r \in Reqs :
        /\ req[r].kind = "order" /\ req[r].pc = "done"
        /\ req[r].result = "no longer available"
        /\ Len(req[r].items) = 2
        /\ LineValid(req[r].snap, req[r].items[1])
        /\ ~LineValid(req[r].snap, req[r].items[2])
        /\ \A o \in DOMAIN orders : orders[o].by # r
        /\ \A p \in Products : products[p] = req[r].snap[p]

\* ---------------------------------------------------------------------- C5
\* C5: a step of an order placement other than its commit writes no product
\* and no order, so an attempt that fails in one of its adjustments (conflict,
\* lock, or a second line that would take the stock below zero) leaves
\* nothing behind; an order record appears only in a step that also applies
\* the decrement and the units sold of every one of its lines; and no order of
\* a request whose transaction is still open or has been aborted is recorded.
C5_AllOrNothing ==
    [][/\ \A r \in Reqs :
            (/\ req[r].kind = "order" \/ req'[r].kind = "order"
             /\ Moved(r)
             /\ ~(req'[r].pc = "done" /\ req'[r].result = "Order placed")) =>
                 /\ products' = products
                 /\ orders' = orders
       /\ Len(orders') # Len(orders) =>
            /\ Len(orders') = Len(orders) + 1
            /\ \A o \in DOMAIN orders : orders'[o].items = orders[o].items
            /\ LET items == orders'[Len(orders')].items
               IN  \A p \in Products :
                      /\ products'[p].stock = products[p].stock - LineSum(items, p)
                      /\ products'[p].totalSold = products[p].totalSold + LineSum(items, p)
       /\ \A r \in Reqs :
            (req'[r].kind = "order" /\ req'[r].result # "Order placed") =>
                \A o \in DOMAIN orders' : orders'[o].by # r
      ]_vars

\* two lines of MaxQty of p1 against a stock of InitStock: the first
\* adjustment went through inside the transaction, the second would take the
\* stock below zero; the attempt is over and nothing of it is in the store
C5_Witness ==
    \E r \in Reqs :
        /\ req[r].kind = "order" /\ req[r].pc = "done"
        /\ req[r].result = "Insufficient stock"
        /\ req[r].i = 2
        /\ req[r].items[1].productId = "p1" /\ req[r].items[2].productId = "p1"
        /\ req[r].reads = <<(<<"p1", 0>>)>>
        /\ products["p1"].stock = InitStock
        /\ products["p1"].version = 0
        /\ products["p1"].totalSold = 0
        /\ orders = << >>

\* ---------------------------------------------------------------------- C6
\* C6: for a product whose stock only order placements have written, the
\* quantities on the committed orders sum to at most the initial stock, and the
\* stock is the initial stock minus that sum.
C6_NoOversell ==
    \A p \in Products :
        writers[p] \subseteq {"order"} =>
            /\ Ordered(p) <= InitStock
            /\ products[p].stock = InitStock - Ordered(p)

\* one placement of p1 has committed while another placement of p1 had its
\* transaction open
C6_Witness ==
    /\ Len(orders) = 1
    /\ LineSum(orders[1].items, "p1") > 0
    /\ writers["p1"] = {"order"}
    /\ \E r \in Reqs :
          /\ req[r].kind = "order" /\ InTxn(r)
          /\ "p1" \in req[r].stale
          /\ LineSum(req[r].items, "p1") > 0

\* ---------------------------------------------------------------------- C7
\* C7: a cancellation goes on to its save only for an order of the requesting
\* user that it read as pending; the save records the status cancelled; and a
\* cancellation that ends without a failed restoration has raised the stock of
\* every product by exactly the quantity on the order's lines.
C7_CancelRestoresStock ==
    [][\A r \in Reqs :
          /\ (req[r].kind = "cancel" /\ req[r].pc = "save" /\ Moved(r)) =>
                /\ orders[req[r].oid].userId = req[r].user
                /\ req[r].why = "pending"
                /\ orders'[req[r].oid].status = "cancelled"
                /\ products' = products
          /\ (req[r].kind = "cancel" /\ req[r].pc = "uss_cas" /\ Moved(r)
              /\ products' # products) =>
                LET item == orders[req[r].oid].items[req[r].i]
                IN  /\ products'[item.productId].stock
                          = products[item.productId].stock + item.quantity
                    /\ \A p \in Products \ {item.productId} : products'[p] = products[p]
          /\ (req'[r].kind = "cancel" /\ req'[r].pc = "done"
              /\ req'[r].result = CancelMsg /\ ~req'[r].fail) =>
                \A p \in Products :
                    req'[r].gain[p] = LineSum(orders'[req'[r].oid].items, p)
      ]_vars

\* an order of MaxQty of p1 and MaxQty of p2 was placed and is now cancelled:
\* both stocks are back at their initial value
C7_Witness ==
    \E r \in Reqs :
        /\ req[r].kind = "cancel" /\ req[r].pc = "done"
        /\ req[r].result = CancelMsg /\ ~req[r].fail
        /\ orders[req[r].oid].status = "cancelled"
        /\ Len(orders[req[r].oid].items) = 2
        /\ \A p \in Products :
              /\ req[r].gain[p] = MaxQty
              /\ products[p].totalSold = MaxQty
              /\ products[p].stock = InitStock

\* ---------------------------------------------------------------------- C8
\* C8: a cancellation request for an order of the requesting user whose status
\* is processing, shipped, delivered or cancelled is answered as an invalid
\* state in the step that reads the order, and that step changes no order and
\* no product; for a pending order the request goes on to the save.
C8_CancelOnlyPending ==
    [][\A r \in Reqs :
          (/\ req[r].pc = "idle"
           /\ req'[r].kind = "cancel"
           /\ req'[r].oid <= Len(orders)
           /\ orders[req'[r].oid].userId = req'[r].user) =>
              IF orders[req'[r].oid].status # "pending"
              THEN /\ req'[r].pc = "done"
                   /\ req'[r].result = InvalidMsg
                   /\ req'[r].gain = NoGain
                   /\ orders' = orders
                   /\ products' = products
              ELSE req'[r].pc = "save"
      ]_vars

\* the owner asks to cancel an order that is already cancelled
C8_Witness ==
    \E r \in Reqs :
        /\ req[r].kind = "cancel" /\ req[r].pc = "done"
        /\ req[r].result = InvalidMsg
        /\ orders[req[r].oid].userId = req[r].user
        /\ orders[req[r].oid].status = "cancelled"

\* ---------------------------------------------------------------------- C9
\* C9: when the conditional write of a restoring adjustment matches no
\* document (the version moved or the product is locked), the cancellation
\* ends in that step with the success response, and the step changes no order
\* (the recorded status stays as the cancellation saved it) and no product.
C9_FailedRestoreKeepsCancelled ==
    [][\A r \in Reqs :
          LET p == req[r].items[req[r].i].productId
          IN  (/\ req[r].kind = "cancel" /\ req[r].pc = "uss_cas" /\ Moved(r)
               /\ (products[p].version # req[r].ver \/ products[p].isLocked)) =>
                  /\ req'[r].pc = "done"
                  /\ req'[r].result = CancelMsg
                  /\ orders' = orders
                  /\ products' = products
      ]_vars

\* the product was locked between the read and the write of the restoring
\* adjustment: the order is cancelled, the stock is still short of the order's
\* quantity, and the response is the success response
C9_Witness ==
    \E r \in Reqs :
        /\ req[r].kind = "cancel" /\ req[r].pc = "done"
        /\ req[r].result = CancelMsg /\ req[r].fail
        /\ req[r].why = "locked"
        /\ orders[req[r].oid].status = "cancelled"
        /\ LET p == req[r].items[req[r].i].productId
           IN  /\ products[p].isLocked
               /\ products[p].stock = InitStock - LineSum(orders[req[r].oid].items, p)

\* --------------------------------------------------------------------- C10
\* the outcomes of one acquire step of request r on document doc
LockAcquired(r, doc) ==
    /\ req'[r].result = "ok"
    /\ products'[req'[r].pid] =
          [doc EXCEPT !.isLocked = TRUE, !.lockedBy = req'[r].user, !.lockedAt = <<now>>]

LockRefused(r, doc) ==
    /\ req'[r].result = LockedMsg
    /\ products'[req'[r].pid] = doc

\* C10 as stated: an acquire on a locked product fails as Locked, holder and
\* timestamp unchanged, while less than the timeout has passed since the lock
\* was taken, and succeeds with the caller as holder and a fresh timestamp
\* once the timeout has passed; an acquire on an unlocked product succeeds.
C10_ExpiresAtTimeout ==
    [][\A r \in Reqs :
          (req[r].pc = "idle" /\ req'[r].kind = "lock" /\ req'[r].pid \in Products) =>
              LET doc == products[req'[r].pid]
              IN  IF ~doc.isLocked THEN LockAcquired(r, doc)
                  ELSE IF now - doc.lockedAt[1] < LockTimeout THEN LockRefused(r, doc)
                  ELSE LockAcquired(r, doc)
      ]_vars

\* C10, amended: the acquire on a locked product fails as Locked, holder and
\* timestamp unchanged, until more than the timeout has passed since the lock
\* was taken (at exactly the timeout it still fails), and succeeds with the
\* caller as holder and a fresh timestamp after that; an acquire on an
\* unlocked product succeeds.
C10_ExpiresAfterTimeout ==
    [][\A r \in Reqs :
          (req[r].pc = "idle" /\ req'[r].kind = "lock" /\ req'[r].pid \in Products) =>
              LET doc == products[req'[r].pid]
              IN  IF ~doc.isLocked THEN LockAcquired(r, doc)
                  ELSE IF now - doc.lockedAt[1] <= LockTimeout THEN LockRefused(r, doc)
                  ELSE LockAcquired(r, doc)
      ]_vars

\* u1 locked p1 and did not release it; more than the timeout later u2 has
\* acquired the lock
C10_Witness ==
    \E r \in Reqs :
        /\ req[r].kind = "lock" /\ req[r].pc = "done" /\ req[r].result = "ok"
        /\ req[r].pid = "p1" /\ req[r].user = "u2"
        /\ req[r].pre.isLocked /\ req[r].pre.lockedBy = "u1"
        /\ now - req[r].pre.lockedAt[1] > LockTimeout
        /\ products["p1"].lockedBy = "u2"
        /\ products["p1"].lockedAt = <<now>>

\* --------------------------------------------------------------------- C11
\* C11: a release by an actor who is not the recorded holder of the product is
\* answered without an error and leaves the product as it was (lock flag,
\* holder and timestamp included), also when the caller held the lock before
\* it expired and was taken over; a release by the recorded holder clears the
\* flag, the holder and the timestamp and nothing else.
C11_ReleaseOnlyByHolder ==
    [][\A r \in Reqs :
          (req[r].pc = "idle" /\ req'[r].kind = "unlock" /\ req'[r].pid \in Products) =>
              LET doc == products[req'[r].pid]
              IN  /\ req'[r].pc = "done"
                  /\ IF doc.lockedBy = req'[r].user
                     THEN /\ req'[r].result = "ok"
                          /\ products' = [products EXCEPT ![req'[r].pid] =
                                 [doc EXCEPT !.isLocked = FALSE, !.lockedBy = NullId,
                                             !.lockedAt = NullDate]]
                     ELSE /\ req'[r].result = "null"
                          /\ products' = products
      ]_vars

\* u1 locked p1; the lock expired and u2 took it over; now u1's release has
\* been answered and u2's lock is in place
C11_Witness ==
    \E r \in Reqs :
        /\ req[r].kind = "unlock" /\ req[r].pc = "done" /\ req[r].result = "null"
        /\ req[r].pid = "p1" /\ req[r].user = "u1"
        /\ products["p1"].isLocked
        /\ products["p1"].lockedBy = "u2"
        /\ products["p1"].lockedAt # NullDate
        /\ products["p1"].lockedAt[1] > LockTimeout
        /\ ~products["p2"].isLocked
        /\ products["p1"] = req[r].pre

\* --------------------------------------------------------------------- C12
\* C12: the conditional write of a stock adjustment that finds the product
\* locked, the lock not older than the timeout, fails and leaves every product
\* as it was, whether the lock was taken before the adjustment's read or
\* between its read and its write.
C12_LockBlocksAdjustment ==
    [][\A r \in Reqs :
          LET doc == products[req[r].pid]
          IN  (/\ req[r].kind = "stock" /\ req[r].pc = "uss_cas" /\ Moved(r)
               /\ doc.isLocked
               /\ now - doc.lockedAt[1] <= LockTimeout) =>
                  /\ req'[r].pc = "done"
                  /\ req'[r].result = ConflictMsg
                  /\ products' = products
      ]_vars

\* the first request read p1 unlocked, the second request locked p1, and the
\* first request's conditional write has failed on the lock alone
C12_Witness ==
    /\ req[1].kind = "stock" /\ req[1].pc = "done" /\ req[1].result = ConflictMsg
    /\ req[1].pid = "p1" /\ req[1].why = "locked"
    /\ req[2].pc = "gone" /\ req[3].pc = "idle"
    /\ products["p1"].isLocked
    /\ products["p1"].version = req[1].ver
    /\ products["p1"].stock = InitStock

\* --------------------------------------------------------------------- C13
\* C13: the conditional write of a stock adjustment that finds the version it
\* read and a lock older than the timeout succeeds.
C13_ExpiredLockDoesNotBlock ==
    [][\A r \in Reqs :
          LET doc == products[req[r].pid]
          IN  (/\ req[r].kind = "stock" /\ req[r].pc = "uss_cas" /\ Moved(r)
               /\ doc.version = req[r].ver
               /\ doc.isLocked
               /\ now - doc.lockedAt[1] > LockTimeout) =>
                  /\ req'[r].result = "ok"
                  /\ products'[req[r].pid].stock = doc.stock + req[r].delta
      ]_vars

\* --------------------------------------------------------------------- C14
\* the causes a reported failure of an adjustment names
CausesNamed(result) ==
    IF result = "Product not found" THEN {"not found"}
    ELSE IF result = "Insufficient stock" THEN {"insufficient"}
    ELSE IF result = ConflictMsg THEN {"version", "locked"}
    ELSE {}

\* why the adjustment of request r failed
CauseOf(r) ==
    IF req[r].result = "Product not found" THEN {"not found"}
    ELSE IF req[r].result = "Insufficient stock" THEN {"insufficient"}
    ELSE IF req[r].why = "both" THEN {"version", "locked"}
    ELSE {req[r].why}

\* C14: the outcome a failed stock adjustment reports names one cause, and it
\* is a cause of the failure: not found, insufficient stock, version conflict
\* or lock.
C14_TypedOutcome ==
    \A r \in Reqs :
        (req[r].kind = "stock" /\ req[r].pc = "done" /\ req[r].result # "ok") =>
            /\ Cardinality(CausesNamed(req[r].result)) = 1
            /\ CausesNamed(req[r].result) \subseteq CauseOf(r)

\* --------------------------------------------------------------------- C15
\* the forward order of the statuses
StatusRank(st) ==
    CASE st = "pending" -> 1
      [] st = "processing" -> 2
      [] st = "shipped" -> 3
      [] st = "delivered" -> 4
      [] OTHER -> 5

\* C15: every change of an order's status goes forward along pending,
\* processing, shipped, delivered, or from pending to cancelled.
C15_StatusMonotonic ==
    [][\A o \in DOMAIN orders :
          orders'[o].status # orders[o].status =>
              IF orders'[o].status = "cancelled" THEN orders[o].status = "pending"
              ELSE /\ orders[o].status # "cancelled"
                   /\ StatusRank(orders'[o].status) > StatusRank(orders[o].status)
      ]_vars

\* --------------------------------------------------------------------- C16
\* the lines stored for the user after the step
StoredAfter(userId) ==
    IF userCarts'[userId] # NoObj THEN cartObjs'[userCarts'[userId]] ELSE NoItems

\* the positions of the lines of product p
LinesOf(items, p) == {k \in DOMAIN items : items[k].productId = p}

\* the quantity the cart holds of product p
QuantityOf(items, p) ==
    IF LinesOf(items, p) = {} THEN 0 ELSE items[findIndex(items, p)].quantity

\* request r of kind k is answered in this step
Answered(r, k) == req'[r].kind = k /\ req'[r].pc = "done" /\ req[r].pc # "done"

\* C16: an add is rejected and leaves the stored cart as it was when the
\* product it fetched is missing or inactive, or when the quantity in the cart
\* plus the added quantity exceeds the stock it fetched; otherwise the cart
\* then holds exactly one line of the product, with the previous quantity plus
\* the added one, the fetched price as its price, and their product as total,
\* and the other lines are as they were.
C16_AddMergesLine ==
    [][\A r \in Reqs :
          Answered(r, "add") =>
              LET u == req'[r].user
                  p == req'[r].pid
                  q == req'[r].delta
                  items == getCartForUser(u)
                  after == StoredAfter(u)
                  fetched == req[r].pc = "add_cart"
              IN  IF ~fetched
                  THEN /\ after = items
                       /\ IF ~(p \in Products /\ products[p].isActive)
                          THEN req'[r].result = "Product not found or unavailable"
                          ELSE /\ req'[r].result = "Insufficient stock"
                               /\ QuantityOf(items, p) + q > products[p].stock
                  ELSE IF QuantityOf(items, p) + q > req[r].pre.stock
                  THEN /\ after = items
                       /\ req'[r].result = "Insufficient stock"
                  ELSE /\ req'[r].result = "Item added to cart"
                       /\ Cardinality(LinesOf(after, p)) = 1
                       /\ LET line == after[findIndex(after, p)]
                          IN  /\ line.quantity = QuantityOf(items, p) + q
                              /\ line.price = req[r].pre.price
                              /\ line.total = line.quantity * req[r].pre.price
                       /\ \A k \in DOMAIN items :
                              items[k].productId # p => after[k] = items[k]
      ]_vars

\* --------------------------------------------------------------------- C17
\* C17: every line stored in a user's cart has a quantity of at least 1, and
\* no two lines stored in one cart are of the same product.
C17_CartLinesWellFormed ==
    \A u \in CartUsers :
        LET items == getCartForUser(u)
        IN  /\ \A k \in DOMAIN items : items[k].quantity >= 1
            /\ \A j, k \in DOMAIN items :
                  j # k => items[j].productId # items[k].productId

\* --------------------------------------------------------------------- C18
\* what a read of the lines items against the products docs returns
\* no other request was in flight when the read r arrived, and none has
\* arrived since
Undisturbed(r) == req[r].alone /\ \A s \in Reqs : s > r => req[s].pc = "idle"

RECURSIVE Materialized(_, _)
Materialized(items, docs) ==
    IF items = << >> THEN << >>
    ELSE LET item == Head(items)
             p == item.productId
         IN  (IF p \in Products /\ docs[p].isActive
              THEN <<[productId |-> p, price |-> docs[p].price, quantity |-> item.quantity,
                      total |-> item.quantity * docs[p].price, annotated |-> TRUE,
                      availableStock |-> docs[p].stock,
                      inStock |-> (docs[p].stock >= item.quantity)]>>
              ELSE << >>)
             \o Materialized(Tail(items), docs)

Reporting == {"get", "summary", "add", "put", "remove"}

\* the responses that carry them
Reports == {"Cart retrieved", "ok", "Item added to cart", "Cart updated",
            "Item removed from cart"}

\* what request r has fetched is what the products are now
FetchedCurrent(r) ==
    CASE req[r].kind = "get" -> Undisturbed(r)
      [] req[r].pc \in {"add_cart", "put_cart"} -> req[r].pre = products[req[r].pid]
      [] OTHER -> TRUE

\* C19: the item count and the cart total in the response of a cart read, a
\* cart summary, an add, a set-quantity and a remove are the sums over the
\* lines the cart then stores, each refreshed against its product: lines of
\* missing products left out, line total = quantity x the product's current
\* price.  After a price change the next reported total is at the new price.
C19_TotalsFromRefreshedLines ==
    [][\A r \in Reqs :
          (/\ req'[r].kind \in Reporting
           /\ Answered(r, req'[r].kind)
           /\ req'[r].result \in Reports
           /\ FetchedCurrent(r))
          => LET lines == Materialized(StoredAfter(req'[r].user), products)
             IN  /\ req'[r].count = sumQuantity(lines)
                 /\ req'[r].total = round2(sumTotal(lines))
      ]_vars

\* --------------------------------------------------------------------- C20
\* the products on the lines of an order request
OrderedProducts(items) == {items[k].productId : k \in DOMAIN items}

\* the lines of a cart that are not of the products S
RECURSIVE Without(_, _)
Without(items, S) ==
    IF items = << >> THEN << >>
    ELSE (IF Head(items).productId \in S THEN << >> ELSE <<Head(items)>>)
         \o Without(Tail(items), S)

\* C20: the step that answers an order placement with success leaves in the
\* user's cart exactly the lines of the products that were not ordered, as they
\* were; every other step of an order placement, and the step that answers it
\* with a failure, leaves the cart as it was.
C20_CommitClearsOrderedLines ==
    [][\A r \in Reqs :
          (req[r].kind = "order" /\ Moved(r)) =>
              IF req'[r].pc = "done" /\ req'[r].result = "Order placed"
              THEN StoredAfter(req[r].user)
                      = Without(getCartForUser(req[r].user), OrderedProducts(req[r].items))
              ELSE StoredAfter(req[r].user) = getCartForUser(req[r].user)
      ]_vars

\* --------------------------------------------------------------------- C21
\* C21: in every committed order each line's total is quantity x unit price
\* rounded to cents, and the order's total amount is the sum of its stored
\* line totals.
C21_OrderTotals ==
    \A o \in DOMAIN orders :
        /\ \A k \in DOMAIN orders[o].items :
              LET line == orders[o].items[k]
              IN  line.total = round2(line.quantity * line.price)
        /\ orders[o].totalAmount = sumTotal(orders[o].items)

\* --------------------------------------------------------------------- C22
\* the placement r has committed: its order is in the collection
Committed(r) == \E o \in DOMAIN orders' : orders'[o].by = r

\* the steps a placement may take, from where it is to where it goes
PlacementFlow ==
    [idle    |-> {"create", "done"},
     create  |-> {"txn_uss"},
     txn_uss |-> {"txn_uss", "commit", "begin", "done"},
     commit  |-> {"done"},
     begin   |-> {"create", "done"},
     done    |-> {"gone"}]

\* C22: a placement goes from validation to the insert and the stock writes,
\* from there to the commit, and ends with one response: success exactly when
\* its transaction has committed, an error exactly when nothing of it is
\* stored; while it holds an open transaction every one of its lines has passed
\* validation against its snapshot, so no stock write comes before that; and
\* every placement that has arrived is eventually answered.
C22_PlacementStateMachine ==
    /\ [][\A r \in Reqs :
            (req'[r].kind = "order" /\ Moved(r)) =>
                /\ req'[r].pc \in PlacementFlow[req[r].pc]
                /\ req'[r].pc = "done" =>
                      /\ (req'[r].result = "Order placed") = (req[r].pc = "commit")
                      /\ (req'[r].result = "Order placed") = Committed(r)
                      /\ req'[r].result # "Order placed" =>
                            products' = products /\ orders' = orders
                /\ req'[r].pc # "done" => products' = products /\ orders' = orders
         ]_vars
    /\ [](\A r \in Reqs :
            (req[r].kind = "order" /\ InTxn(r)) =>
                \A k \in DOMAIN req[r].items : LineValid(req[r].snap, req[r].items[k]))
    /\ [](\A r \in Reqs :
            (req[r].kind = "order" /\ req[r].wset # {}) => req[r].pc \in {"txn_uss", "commit"})
    /\ \A r \in Reqs : (req[r].kind = "order" /\ InFlight(r)) ~> (req[r].pc = "done")

\* a placement of two lines has committed
C22_Witness ==
    \E r \in Reqs :
        /\ req[r].kind = "order" /\ req[r].pc = "done"
        /\ req[r].result = "Order placed"
        /\ Len(req[r].items) = 2
        /\ \E o \in DOMAIN orders : orders[o].by = r /\ Len(orders[o].items) = 2

\* --------------------------------------------------------------------- C23
\* C23: when the admin status update sets an order that was not cancelled to
\* cancelled, the request ends with the stock of every product raised by the
\* quantity on the order's lines.
C23_AdminCancelRestores ==
    [][\A r \in Reqs :
          (/\ Answered(r, "status")
           /\ req'[r].result = "ok"
           /\ orders[req'[r].oid].status # "cancelled"
           /\ orders'[req'[r].oid].status = "cancelled")
          => \A p \in Products :
                products'[p].stock = products[p].stock + LineSum(orders[req'[r].oid].items, p)
      ]_vars

\* --------------------------------------------------------------------- C24
\* C24: a cancellation that is answered has issued the adjustment of every
\* line of the order, also after the adjustment of one of them has failed: the
\* stock of every product but the one whose adjustment failed is raised by the
\* quantity on the order's lines.
C24_EveryLineCompensated ==
    [][\A r \in Reqs :
          (Answered(r, "cancel") /\ req'[r].result = CancelMsg) =>
              /\ req'[r].i = Len(req'[r].items)
              /\ \A p \in Products :
                    (req'[r].fail /\ p = req'[r].items[req'[r].i].productId)
                    \/ req'[r].gain[p] = LineSum(req'[r].items, p)
      ]_vars

\* --------------------------------------------------------------------- C25
\* C25: whatever the interleaving of cancellations and status updates, the
\* stock of a product that only order placements and cancellations have
\* written never exceeds the stock it had before the orders were placed: no
\* decrement is restored twice.
C25_RestoredAtMostOnce ==
    \A p \in Products :
        writers[p] \subseteq {"order", "cancel"} => products[p].stock <= InitStock

\* --------------------------------------------------------------------- C26
\* C26: the step in which a cart read stores what it has collected puts no
\* line into the stored cart that the cart did not hold just before that step,
\* and changes the quantity of none: a line that was removed or changed, or a
\* cart that was cleared, by a direct request or after the commit of an order,
\* while the read was suspended stays removed, changed or cleared.
C26_ReadKeepsMutations ==
    [][\A r \in Reqs :
          Answered(r, "get") =>
              LET before == getCartForUser(req'[r].user)
                  after == StoredAfter(req'[r].user)
              IN  \A k \in DOMAIN after :
                      /\ LinesOf(before, after[k].productId) # {}
                      /\ QuantityOf(before, after[k].productId) = after[k].quantity
      ]_vars

\* --------------------------------------------------------------------- C27
\* C27: a set-quantity of product P that resumes after its product fetch, on
\* the cart the user still has, writes through the position it looked up
\* before the fetch only to the line of P: the write does not fail on a
\* position that is no longer in the array, and the lines of the other
\* products are stored as they were.
C27_SetQuantityWritesOwnLine ==
    [][\A r \in Reqs :
          (/\ Answered(r, "put")
           /\ req[r].pc = "put_cart"
           /\ userCarts[req[r].user] = req[r].cart)
          => /\ req'[r].result = "Cart updated"
             /\ Without(StoredAfter(req[r].user), {req[r].pid})
                   = Without(getCartForUser(req[r].user), {req[r].pid})
      ]_vars

\* --------------------------------------------------------------------- C28
\* C28: every line stored in a cart has total = quantity x the price stored
\* on the line.
C28_LineTotalFromStoredPrice ==
    \A u \in CartUsers :
        LET items == getCartForUser(u)
        IN  \A k \in DOMAIN items : items[k].total = items[k].quantity * items[k].price

\* --------------------------------------------------------------------- C29
\* C29: in every state a product is locked exactly when it has a holder and a
\* lock timestamp, it has neither when it is not locked, and its holder is one
\* user; an acquire that succeeds leaves the caller as the holder; and no
\* acquire and no release changes the stock or the version of any product.
C29_LockFieldsConsistent ==
    /\ [](\A p \in Products :
            /\ products[p].isLocked = (products[p].lockedBy # NullId /\ products[p].lockedAt # NullDate)
            /\ (products[p].lockedBy = NullId) = (products[p].lockedAt = NullDate)
            /\ products[p].lockedBy \in Users \cup {NullId})
    /\ [][\A r \in Reqs :
            (req'[r].kind \in {"lock", "unlock"} /\ Moved(r) /\ req'[r].pc = "done") =>
                /\ \A p \in Products :
                      /\ products'[p].stock = products[p].stock
                      /\ products'[p].version = products[p].version
                /\ (req'[r].kind = "lock" /\ req'[r].result = "ok") =>
                      products'[req'[r].pid].lockedBy = req'[r].user
         ]_vars

\* a user has taken over the expired lock of another user, on a product whose
\* stock an adjustment has changed
C29_Witness ==
    \E r \in Reqs :
        /\ req[r].kind = "lock" /\ req[r].pc = "done" /\ req[r].result = "ok"
        /\ req[r].pre.isLocked
        /\ req[r].pre.lockedBy # req[r].user
        /\ products[req[r].pid].lockedBy = req[r].user
        /\ products[req[r].pid].isLocked
        /\ products[req[r].pid].version > 0

\* --------------------------------------------------------------------- C30
\* C30: in every state the units-sold counter of a product is the sum of the
\* quantities on the lines of the committed orders, cancelled ones included;
\* only the commit of a placement changes it; and that commit lowers the stock
\* by the quantities ordered and raises the version by one per line, no more:
\* the increment of the counter changes neither.
C30_TotalSold ==
    /\ [](\A p \in Products : products[p].totalSold = Ordered(p))
    /\ [][\A p \in Products :
            /\ products'[p].totalSold # products[p].totalSold =>
                  \E r \in Reqs : Answered(r, "order") /\ req'[r].result = "Order placed"
            /\ \A r \in Reqs :
                  (Answered(r, "order") /\ req'[r].result = "Order placed") =>
                      /\ products'[p].totalSold
                            = products[p].totalSold + LineSum(req[r].items, p)
                      /\ products'[p].stock = products[p].stock - LineSum(req[r].items, p)
                      /\ products'[p].version
                            = products[p].version + Cardinality(LinesOf(req[r].items, p))
         ]_vars

\* the one order, of MaxQty of p1, is cancelled and its stock restored: the
\* counter still holds the units of the order
C30_Witness ==
    /\ Len(orders) = 1
    /\ orders[1].status = "cancelled"
    /\ LineSum(orders[1].items, "p1") = MaxQty
    /\ products["p1"].totalSold = MaxQty
    /\ products["p1"].stock = InitStock
    /\ \E r \in Reqs : req[r].kind = "cancel" /\ req[r].pc = "done"

====
